---- MODULE Spec2Model ----
(***************************************************************************)
(* Model of run_all.py: os.walk over the current directory, and for every  *)
(* file entry whose name ends with ".ps1" one blocking                     *)
(*   subprocess.run(["powershell", "-NoProfile", f".\{f}"], cwd=r).        *)
(*                                                                         *)
(* Names are sequences of characters, so that str.endswith and the         *)
(* f-string are computed character by character.  A directory path is the  *)
(* sequence of directory names leading from the walked root to it.         *)
(* The file system holds regular files and real directories; it does not   *)
(* change while the dispatcher runs.                                       *)
(***************************************************************************)
EXTENDS Integers, Sequences, FiniteSets, TLC

\* Bounds of the model.
MaxEntries == 4
MaxDepth == 3

\* ------------------------------------------------------------------ names
X_PS1 == <<"x", ".", "p", "s", "1">>
Y_PS1 == <<"y", ".", "p", "s", "1">>
R_TXT == <<"r", ".", "t", "x", "t">>
XPS1 == <<"x", "p", "s", "1">>
A_DIR == <<"a">>
D_PS1 == <<"d", ".", "p", "s", "1">>

FileNames == {X_PS1, Y_PS1, R_TXT, XPS1}
DirNames == {A_DIR, D_PS1}
ExitCodes == {0, 1}

\* '.ps1', the argument of f.endswith
Suffix == <<".", "p", "s", "1">>
Interpreter == "powershell"
NoProfile == "-NoProfile"
\* Path('.'), the top of the walk
Top == <<".">>

\* ------------------------------------------------------- pure functions
\* str.endswith
EndsWith(s, suf) ==
    /\ Len(s) >= Len(suf)
    /\ SubSeq(s, Len(s) - Len(suf) + 1, Len(s)) = suf

\* variant: the bare file name
ScriptArgBare(f) == f

\* the f-string f".\{f}": a dot, a backslash, then the file name
ScriptArg(f) == <<".", "\\">> \o f

\* the argument vector handed to subprocess.run
Argv(f) == <<Interpreter, NoProfile, ScriptArg(f)>>

\* the dirpath os.walk yields for the directory at path p: Top joined with
\* the names on the way down
DirPath(p) == <<Top>> \o p

\* cwd=r
Cwd(p) == DirPath(p)

\* ---------------------------------------------------------- file system
\* A tree maps the path of each directory to the names of the files in it
\* and to whether the directory can be listed.

\* every directory path of at most n names
RECURSIVE PathsUpTo(_)
PathsUpTo(n) ==
    IF n = 0 THEN { <<>> }
    ELSE LET P == PathsUpTo(n - 1)
         IN P \cup { Append(p, d) : p \in P, d \in DirNames }

\* D with directory d created in p, when p is in D
WithDir(D, p, d) == IF p \in D THEN D \cup {Append(p, d)} ELSE D

\* the sets of directories a tree can have: the root and at most k more,
\* each inside another one, none deeper than MaxDepth
RECURSIVE Skeletons(_)
Skeletons(k) ==
    IF k = 0 THEN { {<<>>} }
    ELSE LET S == Skeletons(k - 1)
         IN S \cup { WithDir(D, p, d) :
                       D \in S, p \in PathsUpTo(MaxDepth - 1), d \in DirNames }

\* the sets of at most b (directory, file name) pairs out of Slots
RECURSIVE Placements(_, _)
Placements(Slots, b) ==
    IF b = 0 THEN { {} }
    ELSE LET P == Placements(Slots, b - 1)
         IN P \cup { Q \cup {s} : Q \in P, s \in Slots }

\* the tree with directories D, of which R can be listed, and files Q
MkTree(D, R, Q) ==
    [p \in D |-> [files |-> { f \in FileNames : <<p, f>> \in Q },
                  readable |-> p \in R]]

\* the directories directly inside p
Subdirs(t, p) ==
    { q \in DOMAIN t : Len(q) = Len(p) + 1 /\ SubSeq(q, 1, Len(p)) = p }

\* ------------------------------------------------------------------ state
VARIABLES
    tree,      \* the directory tree under the current directory
    pc,        \* where the dispatcher is: "walk" (line 6), "files" (lines 7-8),
               \* "wait" (inside subprocess.run), "done", "error" (uncaught exception)
    stack,     \* os.walk's pending directories: one set of siblings per level
    cur,       \* r, the dirpath of the directory being processed
    pending,   \* the entries of the inner loop not yet taken
    launches,  \* every subprocess.run call so far, in order
    skipped    \* the directories whose scandir failed

vars == <<tree, pc, stack, cur, pending, launches, skipped>>

RECURSIVE DropEmpty(_)
\* a level with no directory left is popped
DropEmpty(s) ==
    IF s # <<>> /\ s[Len(s)] = {} THEN DropEmpty(SubSeq(s, 1, Len(s) - 1)) ELSE s

\* variant: an onerror that raises
OnScandirErrorRaise == "error"

\* os.walk(top, onerror=None): an error of scandir is ignored and the
\* directory is left out of the walk
OnScandirError == "walk"

\* variant: "for f in d + files"
CandidatesWithDirs(t, p) == t[p].files \cup { q[Len(q)] : q \in Subdirs(t, p) }

\* "for f in files": the entries the inner loop ranges over, for directory p
Candidates(t, p) == t[p].files

\* variant: no filter
MatchesAny(f) == TRUE

\* the filter of line 8
Matches(f) == EndsWith(f, Suffix)

\* variant: a listing of the top directory only
DescendNone(t, p) == {}

\* the directories os.walk descends into from p
Descend(t, p) == Subdirs(t, p)

\* variant: subprocess.Popen, which does not wait
AfterStartNoWait == "files"

\* subprocess.run returns only when the child has exited
AfterStart == "wait"

\* variant: check=True, CalledProcessError on a non-zero returncode
AfterExitChecked(code) == IF code # 0 THEN "error" ELSE "files"

\* check=False: the CompletedProcess is dropped whatever its returncode
AfterExit(code) == "files"

\* variant: the OSError caught and the loop continued
AfterLaunchFailureCaught == "files"

\* no try/except around subprocess.run: the OSError of a failed launch
\* leaves the loops and ends the script
AfterLaunchFailure == "error"

Init ==
    /\ \E D \in Skeletons(MaxEntries) :
         \E R \in SUBSET D :
           \E Q \in Placements(D \X FileNames, MaxEntries - (Cardinality(D) - 1)) :
             tree = MkTree(D, R, Q)
    /\ pc = "walk"
    /\ stack = << {<<>>} >>
    /\ cur = <<>>
    /\ pending = {}
    /\ launches = <<>>
    /\ skipped = {}

\* line 6, the generator is exhausted: the script ends
WalkDone ==
    /\ pc = "walk"
    /\ stack = <<>>
    /\ pc' = "done"
    /\ UNCHANGED <<tree, stack, cur, pending, launches, skipped>>

\* line 6, os.walk takes the next directory; the order among siblings is
\* the order scandir returned them in, which is arbitrary
WalkVisit ==
    /\ pc = "walk"
    /\ stack # <<>>
    /\ \E q \in stack[Len(stack)] :
         LET rest == [stack EXCEPT ![Len(stack)] = @ \ {q}]
         IN IF tree[q].readable
            THEN /\ cur' = q
                 /\ pending' = Candidates(tree, q)
                 /\ stack' = DropEmpty(Append(rest, Descend(tree, q)))
                 /\ pc' = "files"
                 /\ UNCHANGED skipped
            ELSE /\ skipped' = skipped \cup {q}
                 /\ stack' = DropEmpty(rest)
                 /\ pc' = OnScandirError
                 /\ UNCHANGED <<cur, pending>>
    /\ UNCHANGED <<tree, launches>>

\* line 7, the inner loop is over
FilesDone ==
    /\ pc = "files"
    /\ pending = {}
    /\ pc' = "walk"
    /\ UNCHANGED <<tree, stack, cur, pending, launches, skipped>>

\* lines 7-8, an entry that fails the filter
SkipFile ==
    /\ pc = "files"
    /\ \E f \in pending :
         /\ ~Matches(f)
         /\ pending' = pending \ {f}
    /\ UNCHANGED <<tree, pc, stack, cur, launches, skipped>>

\* a call of subprocess.run for file f of directory cur
Call(f, st) ==
    [dir |-> cur, name |-> f, cwd |-> Cwd(cur), argv |-> Argv(f),
     status |-> st, code |-> -1]

\* lines 7-9, an entry that passes the filter: the child is started
Launch ==
    /\ pc = "files"
    /\ \E f \in pending :
         /\ Matches(f)
         /\ pending' = pending \ {f}
         /\ launches' = Append(launches, Call(f, "running"))
    /\ pc' = AfterStart
    /\ UNCHANGED <<tree, stack, cur, skipped>>

\* lines 7-9, an entry that passes the filter, and Popen raises (the
\* interpreter is not on the path, or the child cannot start in cwd)
LaunchFails ==
    /\ pc = "files"
    /\ \E f \in pending :
         /\ Matches(f)
         /\ pending' = pending \ {f}
         /\ launches' = Append(launches, Call(f, "failed"))
    /\ pc' = AfterLaunchFailure
    /\ UNCHANGED <<tree, stack, cur, skipped>>

\* a running child exits; subprocess.run, if it is waiting, returns
ProcExit ==
    /\ \E i \in DOMAIN launches, code \in ExitCodes :
         /\ launches[i].status = "running"
         /\ launches' = [launches EXCEPT ![i].status = "exited", ![i].code = code]
         /\ pc' = IF pc = "wait" THEN AfterExit(code) ELSE pc
    /\ UNCHANGED <<tree, stack, cur, pending, skipped>>

Dispatcher == WalkDone \/ WalkVisit \/ FilesDone \/ SkipFile \/ Launch \/ LaunchFails

Next == Dispatcher \/ ProcExit

Spec == Init /\ [][Next]_vars

\* the interpreter runs the dispatcher's next step, and every child
\* that was started exits
FairSpec == Spec /\ WF_vars(Dispatcher) /\ WF_vars(ProcExit)

\* ----------------------------------------------------- what the claims use
\* p and every directory above it can be listed, so the walk reaches and
\* lists p
Walkable(p) == \A k \in 0..Len(p) : tree[SubSeq(p, 1, k)].readable

\* the files of the tree whose name has the target suffix
MatchingFiles ==
    { m \in (DOMAIN tree) \X FileNames :
        m[2] \in tree[m[1]].files /\ EndsWith(m[2], Suffix) }

\* the matching files in directories the walk lists
ListedMatches == { m \in MatchingFiles : Walkable(m[1]) }

\* the calls made for file m
LaunchesOf(m) ==
    { i \in DOMAIN launches : launches[i].dir = m[1] /\ launches[i].name = m[2] }

LastFailed == launches # <<>> /\ launches[Len(launches)].status = "failed"

IsPrefix(q, p) == Len(q) <= Len(p) /\ SubSeq(p, 1, Len(q)) = q

\* C1 as stated: a run in which no launch fails ends with exactly one
\* launch per file with the suffix, N launches for N such files in the
\* tree, and none for any other file.
C1_AsStated ==
    pc = "done" =>
        /\ Len(launches) = Cardinality(MatchingFiles)
        /\ \A m \in MatchingFiles : Cardinality(LaunchesOf(m)) = 1
        /\ \A i \in DOMAIN launches :
             <<launches[i].dir, launches[i].name>> \in MatchingFiles

\* C1 amended: no file is ever launched twice and no file without the
\* suffix is ever launched; a run in which no launch fails ends with
\* exactly one launch for each file with the suffix that lies in a
\* directory the walk can list, and with no other launch.
C1_ExactlyOncePerListedMatch ==
    /\ \A i \in DOMAIN launches :
         <<launches[i].dir, launches[i].name>> \in ListedMatches
    /\ \A m \in MatchingFiles : Cardinality(LaunchesOf(m)) <= 1
    /\ pc = "done" =>
         /\ Len(launches) = Cardinality(ListedMatches)
         /\ \A m \in ListedMatches : Cardinality(LaunchesOf(m)) = 1

\* a finished run with two launches that passed over a file whose name
\* ends with "ps1" but not with the suffix
C1_Witness ==
    /\ pc = "done"
    /\ Len(launches) >= 2
    /\ \E p \in DOMAIN tree : Walkable(p) /\ XPS1 \in tree[p].files

\* C2 as stated: every launch has the file's directory as working
\* directory and the file's base name as its sole script argument.
C2_AsStated ==
    \A i \in DOMAIN launches :
        /\ launches[i].cwd = <<Top>> \o launches[i].dir
        /\ Len(launches[i].argv) = 3
        /\ launches[i].argv[3] = launches[i].name

\* C2 amended: every launch has the file's directory as working directory,
\* and its sole script argument, after the interpreter and its -NoProfile
\* option, is the file's base name with the two characters dot and
\* backslash put in front of it.
C2_CwdAndDotBackslashName ==
    \A i \in DOMAIN launches :
        /\ launches[i].name \in tree[launches[i].dir].files
        /\ launches[i].cwd = <<Top>> \o launches[i].dir
        /\ Len(launches[i].argv) = 3
        /\ launches[i].argv[1] = "powershell"
        /\ launches[i].argv[2] = "-NoProfile"
        /\ Len(launches[i].argv[3]) = Len(launches[i].name) + 2
        /\ launches[i].argv[3][1] = "."
        /\ launches[i].argv[3][2] = "\\"
        /\ SubSeq(launches[i].argv[3], 3, Len(launches[i].argv[3])) = launches[i].name

\* a launch for a file of a directory below the root
C2_Witness ==
    \E i \in DOMAIN launches :
        /\ Len(launches[i].dir) >= 2
        /\ launches[i].name = Y_PS1

\* C3 as stated: a file with the suffix at any depth below the root has
\* been launched when the run finishes.
C3_AsStated ==
    pc = "done" =>
        \A m \in MatchingFiles :
            \E i \in DOMAIN launches :
                launches[i].dir = m[1] /\ launches[i].name = m[2]

\* C3 amended: a file with the suffix at any depth below the root, in a
\* directory the walk can list, has been launched from its own directory
\* when the run finishes, as a file of the root has.
C3_AnyDepthListed ==
    pc = "done" =>
        \A d \in 0..MaxDepth :
            \A m \in ListedMatches :
                Len(m[1]) = d =>
                    \E i \in DOMAIN launches :
                        /\ launches[i].dir = m[1]
                        /\ launches[i].name = m[2]
                        /\ Len(launches[i].cwd) = d + 1

\* a finished run that launched a file three directories down
C3_Witness ==
    /\ pc = "done"
    /\ \E i \in DOMAIN launches :
         Len(launches[i].dir) >= 3 /\ launches[i].status = "exited"

\* C4: with no file with the suffix anywhere in the tree, the dispatcher
\* reaches "done", and never launches anything nor enters the error state.
C4_NoMatchNoLaunch ==
    /\ [](MatchingFiles = {} => launches = <<>> /\ pc # "error")
    /\ (MatchingFiles = {}) ~> (pc = "done" /\ launches = <<>>)

\* a finished run over a tree that has files, none with the suffix
C4_Witness ==
    /\ MatchingFiles = {}
    /\ pc = "done"
    /\ \E p \in DOMAIN tree : Len(p) >= 1 /\ Walkable(p) /\ tree[p].files # {}

\* C5: at most one child is running, it is the one launched last, and the
\* dispatcher is waiting for it; so no launch begins while an earlier
\* child still runs.
C5_Sequential ==
    /\ Cardinality({ i \in DOMAIN launches : launches[i].status = "running" }) <= 1
    /\ \A i \in DOMAIN launches :
         launches[i].status = "running" => i = Len(launches) /\ pc = "wait"

\* a second child running after the first has exited
C5_Witness ==
    /\ Len(launches) >= 2
    /\ launches[Len(launches)].status = "running"
    /\ launches[1].status = "exited"

\* C6: once a child has exited with a non-zero code, the dispatcher is in
\* the error state only if a later launch itself failed, and a finished
\* run has launched every file it would have launched had the code been
\* zero.
C6_ExitCodeIgnored ==
    (\E i \in DOMAIN launches :
        launches[i].status = "exited" /\ launches[i].code # 0) =>
        /\ pc = "error" => LastFailed
        /\ pc = "done" =>
             { <<launches[i].dir, launches[i].name>> : i \in DOMAIN launches }
                = ListedMatches

\* a finished run whose first child exited with code 1 and which launched
\* another file afterwards
C6_Witness ==
    /\ pc = "done"
    /\ Len(launches) >= 2
    /\ launches[1].code = 1

\* C7: a launch that fails is the last call the dispatcher makes and
\* leaves it in the error state.
C7_LaunchFailureAborts ==
    \A i \in DOMAIN launches :
        launches[i].status = "failed" => i = Len(launches) /\ pc = "error"

\* a failed launch with a file with the suffix still waiting for its turn
C7_Witness ==
    /\ LastFailed
    /\ \E m \in ListedMatches : LaunchesOf(m) = {}

\* C8 as stated: once the traversal has met a directory it cannot read,
\* the dispatcher is in the error state.
C8_AsStated == skipped # {} => pc = "error"

\* C8 amended: a directory the traversal cannot read is skipped without
\* any error: nothing in or below it is launched, the dispatcher is in
\* the error state only if a launch failed, and the run goes on to launch
\* the files of the directories it can list.
C8_UnreadableSkipped ==
    skipped # {} =>
        /\ \A q \in skipped : ~tree[q].readable
        /\ \A q \in skipped, i \in DOMAIN launches : ~IsPrefix(q, launches[i].dir)
        /\ pc = "error" => LastFailed
        /\ pc = "done" => \A m \in ListedMatches : LaunchesOf(m) # {}

\* after an unreadable directory was skipped, the walk is in another
\* directory, about to launch a file of it
C8_Witness ==
    /\ skipped # {}
    /\ pc = "files"
    /\ cur # <<>>
    /\ \E f \in pending : EndsWith(f, Suffix)

\* C9: if every child exits, the dispatcher ends; it ends in "done" only
\* with nothing left to visit and every listed match launched and exited,
\* in "error" only on a failed launch, and it launches no file twice.
C9_Terminates ==
    /\ <>(pc \in {"done", "error"})
    /\ [](pc = "done" =>
            /\ stack = <<>>
            /\ pending = {}
            /\ \A m \in ListedMatches :
                 \E i \in LaunchesOf(m) : launches[i].status = "exited")
    /\ [](pc = "error" => LastFailed)
    /\ [](\A i, j \in DOMAIN launches :
            launches[i].dir = launches[j].dir /\ launches[i].name = launches[j].name
                => i = j)

\* a finished run of three launches
C9_Witness == pc = "done" /\ Len(launches) >= 3

\* the directories whose own name has the target suffix
SuffixDirs == { q \in DOMAIN tree : q # <<>> /\ EndsWith(q[Len(q)], Suffix) }

\* C10 as stated: a directory whose name has the suffix is never launched
\* itself, and when the run finishes the files with the suffix inside it
\* have been launched with it as working directory.
C10_AsStated ==
    /\ \A i \in DOMAIN launches : Append(launches[i].dir, launches[i].name) \notin SuffixDirs
    /\ pc = "done" =>
         \A q \in SuffixDirs : \A f \in tree[q].files :
             EndsWith(f, Suffix) =>
                 \E i \in DOMAIN launches :
                     /\ launches[i].name = f
                     /\ launches[i].cwd = <<Top>> \o q

\* C10 amended: a directory whose name has the suffix is never launched
\* itself, and when the run finishes the files with the suffix inside it
\* have been launched with it as working directory, provided the walk can
\* list it.
C10_SuffixDirDescended ==
    /\ \A i \in DOMAIN launches : Append(launches[i].dir, launches[i].name) \notin SuffixDirs
    /\ pc = "done" =>
         \A q \in SuffixDirs : \A f \in tree[q].files :
             Walkable(q) /\ EndsWith(f, Suffix) =>
                 \E i \in DOMAIN launches :
                     /\ launches[i].name = f
                     /\ launches[i].cwd = <<Top>> \o q

\* a finished run that launched a file of a directory named d.ps1
C10_Witness ==
    /\ pc = "done"
    /\ \E i \in DOMAIN launches : launches[i].dir \in SuffixDirs

====
